---------------------------- MODULE Spec2Model ----------------------------
(***************************************************************************)
(* A model of the JoinPage component of tago-2nd-frontend                  *)
(* (src/tago-2nd-frontend/src/pages/joinpage.tsx).                         *)
(*                                                                         *)
(* The specifications share the variables:                                 *)
(*   Spec         the speaker's side: React renders and the closures they  *)
(*                create, handleMicClick / handleLeaveClick, startSpeech,  *)
(*                stopSpeech, the worklet's onmessage callback and         *)
(*                processAudioChunk, interleaved at their await points;    *)
(*   SpecCaption  the caption data-message effect with its translation,    *)
(*                speech-synthesis and auto-clear timer callbacks;         *)
(*   SpecCreator  a recording creator who also receives caption events;    *)
(*   SpecSession  the effects, the credential request and the transport;   *)
(*   SpecPage     the session together with capture and chunks;            *)
(*   SpecRapid    a creator who clicks the mic button in quick succession; *)
(*   SpecLeave    a creator who records and leaves, with the fairness of   *)
(*                the platform: renders happen and awaited promises settle;*)
(*   SpecEncode   calls of WAVEncoder.encodeWAV;                           *)
(*   SpecResample calls of WAVEncoder.resample.                            *)
(* JavaScript runs one task at a time, so every action is the code between *)
(* two suspension points (an await, a promise callback, an event).         *)
(***************************************************************************)
EXTENDS Integers, Sequences, FiniteSets

(* ------------------------------ bounds -------------------------------- *)
\* startSpeech invocations in one run of the page
MaxStarts == 2
\* startSpeech invocations in a run of the page with rapid mic clicks
MaxRapidStarts == 3
\* stopSpeech invocations in one run of the page
MaxStops == 1
\* closures (renders) that can be alive at the same time
MaxGen == 3
\* frames the worklets post in one run
MaxFrames == 2
\* samples in the shorter of the two frame sizes the worklet may post
FrameLen == 16000
\* data messages delivered in one run
MaxDeliveries == 3
\* the low part of the sample counts handed to encodeWAV ranges over 0..MaxLow
MaxLow == 24
\* the inputs handed to resample hold 1..MaxInput samples
MaxInput == 6
\* the sample rates handed to resample range over 1..MaxRate
MaxRate == 5

(* ------------------------- program constants -------------------------- *)
targetBufferSize == 32000
overlapSize == 8000

Starts == 1..MaxRapidStarts
Stops == 1..MaxStops
Gens == 0..(MaxGen - 1)
FrameLens == {FrameLen, 2 * FrameLen}
\* a chunk built by the capture callback is named by the ordinal of the frame
\* that triggered it; the chunk built by stopSpeech s is MaxFrames + s
ChunkIds == 1..(MaxFrames + MaxStops)
\* who awaits a processAudioChunk call: the callback of worklet node i (i), or
\* stopSpeech invocation s (MaxRapidStarts + s)
Callers == 1..(MaxRapidStarts + MaxStops)
StopCaller(s) == MaxRapidStarts + s
IsNodeCaller(c) == c <= MaxRapidStarts

VARIABLES
  \* ---- inputs of the session
  role,             \* RoomContext role
  userId,           \* getUserId(): 0 is null
  \* ---- React
  st,               \* the state cells after the latest set calls
  view,             \* the state the committed render's closures read
  gen,              \* the committed render (its closures)
  flag,             \* isProcessingAudio, one variable per render
  navigated,        \* navigate("/") was called
  \* ---- asynchronous invocations
  start,            \* startSpeech invocations
  stop,             \* stopSpeech invocations
  calls,            \* processAudioChunk invocations past their first await
  \* ---- media devices and Web Audio
  trackLive,        \* stream i has a live track
  ctxState,         \* AudioContext i: "none", "running", "closed"
  modLoaded,        \* audio-processor is registered in context i
  nodeCtx,          \* the context worklet node i was built on (0: not built)
  nodeConn,         \* worklet node i is connected to the destination
  \* ---- refs
  audioContextRef, sourceNodeRef, workletNodeRef, chunkIndexRef, audioChunksRef,
  \* ---- locals of startSpeech captured by onmessage, per node
  bufferSize, overlapLen,
  audioBuffer,      \* per node: the frames (by ordinal) the callback's audioBuffer holds
  \* ---- history
  nFrames,          \* frames posted so far
  emitted,          \* per node: the chunkIndex of every chunk its callback built
  prefix,           \* per node: the overlap prefix of every chunk its callback built
  overlapFrom,      \* per node: the pass whose combined buffer overlapBuffer is the tail of
  postCount,        \* per chunk: the POSTs to /audio/process that carried it
  dropped,          \* chunks whose processAudioChunk call found the permit held
  lastOutcome,      \* how the latest processAudioChunk call to end ended
  notified,         \* the latest processAudioChunk call to end raised toast.error
  lastResult,       \* the body of the latest /audio/process response parsed
  forwarded,        \* the "transcription" events dispatched on window
  localPlays,       \* chunks whose audioContent processAudioChunk played
  \* ---- the caption effect (SpecCaption)
  listenerLanguage, \* localStorage "listenerLanguage" ("": not set)
  dataMessages,     \* useLiveKit's dataMessages
  effectSeen,       \* length of dataMessages when the caption effect last ran
  captionText,      \* state cell captionText
  messages,         \* state cell messages
  captionTimeoutRef,\* the timer the ref names (0: null)
  timers,           \* pending setTimeout callbacks
  translateReqs,    \* POSTs to /translate in flight
  ttsReqs,          \* POSTs to /audio/tts in flight
  \* ---- history of the caption effect, per delivery (position in dataMessages)
  settled,          \* how the handling of the delivery went
  shown,            \* the text displayed for the delivery when that settled
  ttsIssued,        \* every speech-synthesis request made
  played,           \* deliveries whose synthesized speech was played
  \* ---- the session: context, effects, credential, published tracks
  roomId,           \* RoomContext roomId: 0 is missing
  userData,         \* Helpers.getUserData(): 0 is null or without id, 1 a
                    \* profile without language, 2 a profile with one
  deps,             \* the dependency values the effects last ran with
  tokenReq,         \* joinLiveKit calls whose request is pending
  tokenIssued,      \* credential requests made
  tokenOutcome,     \* how the latest credential request settled
  pubs,             \* audio tracks in localParticipant's publications
  publishing,       \* tracks whose publishTrack is pending
  unpublishing,     \* tracks whose unpublishTrack is pending
  remoteAudioTracks,\* remote audio tracks collected for the <audio> elements
  wasReady,         \* readiness has held in a committed render
  staleSeen,        \* the publish effect ran while a stopped stream's track was listed
  unhandled,        \* boundary calls whose rejection no handler received
  \* ---- WAVEncoder.encodeWAV
  sampleCount,      \* samples.length of the call
  wav,              \* the encoded buffer: its byte length and header fields
  \* ---- WAVEncoder.resample
  resampling        \* one call: its arguments, loop counter and the indices read

\* what processAudioChunk does with a parsed response
result == <<lastResult, forwarded, localPlays>>
speakerVars == <<role, userId, st, view, gen, flag, navigated, start, stop,
                 calls, trackLive, ctxState, modLoaded, nodeCtx, nodeConn,
                 audioContextRef, sourceNodeRef, workletNodeRef, chunkIndexRef,
                 audioChunksRef, bufferSize, audioBuffer, overlapLen, nFrames, emitted, prefix, overlapFrom, postCount, result,
                 dropped, lastOutcome, notified>>
cap == <<listenerLanguage, dataMessages, effectSeen, captionText, messages,
         captionTimeoutRef, timers, translateReqs, ttsReqs, settled, shown,
         ttsIssued, played>>
conn == <<roomId, userData, deps, tokenReq, tokenIssued, tokenOutcome, pubs,
          publishing, unpublishing, remoteAudioTracks, wasReady, staleSeen>>
enc == <<sampleCount, wav, resampling>>
sess == <<conn, unhandled, enc>>
vars == <<speakerVars, cap, sess>>

(* ------------------------------ React --------------------------------- *)
\* useState initial values
InitState == [isRecording |-> FALSE, isConnecting |-> FALSE,
              isProcessing |-> FALSE, micStream |-> 0,
              livekitReady |-> FALSE, livekitToken |-> 0, livekitWsUrl |-> 0,
              livekitRoomName |-> 0, livekitUserName |-> 0,
              isLivekitConnected |-> FALSE]

\* a set call of a state cell; React ignores it once the component is unmounted
SetState(s, field, val) == IF navigated THEN s ELSE [s EXCEPT ![field] = val]

\* worklet node i still posts frames: built, connected, its context running
NodeLive(i) == /\ nodeCtx[i] # 0
               /\ nodeConn[i]
               /\ ctxState[nodeCtx[i]] = "running"

\* the render whose processAudioChunk a caller uses
CallerGen(c) == IF IsNodeCaller(c) THEN start[c].gen ELSE stop[c - MaxRapidStarts].gen

\* renders whose closures an asynchronous invocation or a live capture callback
\* still holds
UsedGens == {start[i].gen : i \in {j \in Starts :
                      start[j].pc \in {"gum", "close", "addModule"} \/ NodeLive(j)}}
            \cup {stop[s].gen : s \in {t \in Stops : stop[t].pc \in {"close", "flush"}}}
            \cup {CallerGen(c.caller) : c \in calls}

FreeGens == Gens \ UsedGens

\* the component function runs again: new closures, a new isProcessingAudio.
\* A render whose closures nothing holds any more is forgotten, so its name is
\* free again
Render ==
  /\ ~navigated
  /\ FreeGens # {}
  /\ LET g == CHOOSE x \in FreeGens : \A y \in FreeGens : x <= y
     IN /\ gen' = g
        /\ flag' = [flag EXCEPT ![g] = FALSE]
  /\ view' = st
  /\ UNCHANGED <<role, userId, st, navigated, start, stop, calls,
                 trackLive, ctxState, modLoaded, nodeCtx, nodeConn,
                 audioContextRef, sourceNodeRef, workletNodeRef, chunkIndexRef,
                 audioChunksRef, bufferSize, audioBuffer, overlapLen, nFrames, emitted, prefix, overlapFrom, postCount, result,
                 dropped, lastOutcome, notified, cap, sess>>


(* ------------------------- processAudioChunk -------------------------- *)
\* String.prototype.trim on the texts of the model
Trim(t) == IF t = " " THEN "" ELSE t

\* the bodies /audio/process may answer with ("" stands for an absent field)
Results == [text : {"", " ", "hi"}, audioContent : {"", "mp3"}]
NoResult == [text |-> "", audioContent |-> ""]

\* faulty variant: a transcript is forwarded without synthesized audio
ForwardableTextOnly(r) == r.text # "" /\ Trim(r.text) # ""

\* line 363: result.text && result.text.trim() && result.audioContent
Forwardable(r) == r.text # "" /\ Trim(r.text) # "" /\ r.audioContent # ""

\* history: the call made for chunk k ended with outcome o
Ended(k, o) ==
  /\ dropped' = IF o = "dropped" THEN dropped \cup {k} ELSE dropped
  /\ lastOutcome' = o

\* the permit test of line 324, read in the closure of render g
Busy(g) == flag[g]

\* processAudioChunk up to its first await (lines 324-336), in render g's closure:
\* "dropped" (permit held), "missing" (no user or room: toast, permit released
\* again) or "acquired" (the call goes on to await audioBlob.arrayBuffer())
Entry(g) == IF Busy(g) THEN "dropped"
            ELSE IF userId = 0 \/ roomId = 0 THEN "missing"
            ELSE "acquired"

NewCall(c, k, idx, total) ==
  [caller |-> c, chunk |-> k, idx |-> idx, total |-> total, pc |-> "arrayBuffer"]

\* faulty variant: a finally block that leaves isProcessingAudio set
ReleasePermitForgotten(f, g) == f

\* the finally block, line 400
ReleasePermit(f, g) == [f EXCEPT ![g] = FALSE]

\* faulty variant: a catch block that submits the failed chunk again
ResubmitFailed(c) == {[c EXCEPT !.pc = "arrayBuffer"]}

\* the catch block, lines 395-397: it logs and toasts; nothing is submitted again
Resubmit(c) == {}

(* ----------------------------- stopSpeech ----------------------------- *)
\* lines 450-454, then handleLeaveClick's navigate (line 576) when it awaited
\* this invocation
StopEnd(s, rec, st0) ==
  /\ st' = SetState(SetState(SetState(st0, "isRecording", FALSE),
                             "isConnecting", FALSE), "micStream", 0)
  /\ chunkIndexRef' = 0
  /\ stop' = [stop EXCEPT ![s] =
                [rec EXCEPT !.pc = "done", !.gen = 0, !.mic = 0, !.ctx = 0]]
  /\ navigated' = (navigated \/ rec.leave)

\* lines 422-448: stop the tracks of the closure's micStream, then submit what
\* audioChunksRef holds as the final chunk
StopFlush(s, rec) ==
  /\ trackLive' = [i \in Starts |-> trackLive[i] /\ i # rec.mic]
  /\ IF audioChunksRef > 0
     THEN LET k == MaxFrames + s
              entry == Entry(rec.gen)
          IN IF entry = "acquired"
             THEN /\ flag' = [flag EXCEPT ![rec.gen] = TRUE]
                  /\ st' = SetState(st, "isProcessing", TRUE)
                  /\ calls' = calls \cup
                       {NewCall(StopCaller(s), k, chunkIndexRef, chunkIndexRef + 1)}
                  /\ stop' = [stop EXCEPT ![s] = [rec EXCEPT !.pc = "flush"]]
                  /\ UNCHANGED <<audioChunksRef, chunkIndexRef, navigated,
                                 dropped, lastOutcome, notified>>
             ELSE /\ audioChunksRef' = 0
                  /\ Ended(k, entry)
                  /\ notified' = (entry = "missing")
                  /\ StopEnd(s, rec, st)
                  /\ UNCHANGED <<flag, calls>>
     ELSE /\ StopEnd(s, rec, st)
          /\ UNCHANGED <<flag, calls, dropped, lastOutcome, notified, audioChunksRef>>

\* close() of context x was called (line 418 or 472) and has not settled yet
ClosePending(x) ==
  \/ \E i \in Starts : start[i].pc = "close" /\ start[i].closing = x
  \/ \E t \in Stops : stop[t].pc = "close" /\ stop[t].ctx = x

\* stopSpeech from its call to its first await, lines 404-418, called from the
\* committed render's handler. close() of a context that is already being
\* closed is resolved by some platforms and rejected at once by others; the
\* await of line 418 is in no try block, so a rejection ends stopSpeech there
\* and, with it, the handleLeaveClick that awaited it (line 574).
StopBegin(s, leave) ==
  LET w == workletNodeRef
      rec == [pc |-> "close", gen |-> gen, mic |-> view.micStream,
              ctx |-> audioContextRef, leave |-> leave,
              pend |-> IF w = 0 THEN FALSE
                       ELSE bufferSize[w] > 0 /\ bufferSize[w] < targetBufferSize]
  IN /\ nodeConn' = [i \in Starts |-> nodeConn[i] /\ i # w]
     /\ workletNodeRef' = 0
     /\ sourceNodeRef' = 0
     /\ IF audioContextRef # 0 /\ ctxState[audioContextRef] # "closed"
        THEN /\ \/ stop' = [stop EXCEPT ![s] = rec]
                \/ /\ ClosePending(audioContextRef)
                   /\ stop' = [stop EXCEPT ![s] =
                                 [rec EXCEPT !.pc = "failed", !.gen = 0,
                                             !.mic = 0, !.ctx = 0]]
             /\ UNCHANGED <<trackLive, flag, calls, st, audioChunksRef,
                            chunkIndexRef, navigated, dropped, lastOutcome, notified>>
        ELSE StopFlush(s, [rec EXCEPT !.ctx = 0])

IdleStops == {s \in Stops : stop[s].pc = "idle"}
\* the startSpeech invocations the run has not used yet
IdleStarts == {i \in Starts : start[i].pc = "idle" /\ ~start[i].off}
Least(S) == CHOOSE x \in S : \A y \in S : x <= y

\* close() resolved: lines 418-419, then the rest of stopSpeech
StopAfterClose(s) ==
  /\ stop[s].pc = "close"
  /\ ctxState' = [ctxState EXCEPT ![stop[s].ctx] = "closed"]
  /\ audioContextRef' = 0
  /\ StopFlush(s, stop[s])
  /\ UNCHANGED <<role, userId, view, gen, start, modLoaded, nodeCtx, nodeConn,
                 sourceNodeRef, workletNodeRef, bufferSize, audioBuffer, overlapLen, nFrames,
                 emitted, prefix, overlapFrom, postCount, result, cap, sess>>

(* ---------------------------- startSpeech ----------------------------- *)
\* faulty variant: a catch block that reports the recording as started
StartFailedRecording(i, rec) ==
  /\ start' = [start EXCEPT ![i] =
                 [rec EXCEPT !.pc = "failed", !.gen = 0, !.errs = @ + 1]]
  /\ st' = SetState(SetState(st, "isRecording", TRUE), "isConnecting", FALSE)

\* the catch block of startSpeech, lines 549-553: one toast.error (errs counts
\* them), isConnecting false; nothing is called again
StartFailed(i, rec) ==
  /\ start' = [start EXCEPT ![i] =
                 [rec EXCEPT !.pc = "failed", !.gen = 0, !.errs = @ + 1]]
  /\ st' = SetState(st, "isConnecting", FALSE)

\* lines 474-478: a new context and source node, then await addModule
CreateGraph(i, rec, cs) ==
  /\ ctxState' = [cs EXCEPT ![i] = "running"]
  /\ audioContextRef' = i
  /\ sourceNodeRef' = i
  /\ start' = [start EXCEPT ![i] = [rec EXCEPT !.pc = "addModule", !.closing = 0]]

\* getUserMedia settled: lines 467-473
GetUserMediaDone(i) ==
  /\ start[i].pc = "gum"
  /\ \/ /\ StartFailed(i, start[i])
        /\ UNCHANGED <<trackLive, ctxState, audioContextRef, sourceNodeRef>>
     \/ LET rec == [start[i] EXCEPT !.gotStream = TRUE]
        IN /\ trackLive' = [trackLive EXCEPT ![i] = TRUE]
           /\ IF audioContextRef = 0
              THEN /\ CreateGraph(i, rec, ctxState)
                   /\ st' = SetState(st, "micStream", i)
              ELSE IF ctxState[audioContextRef] = "closed"
              THEN \* close() of a closed context rejects
                   /\ start' = [start EXCEPT ![i] =
                                  [rec EXCEPT !.pc = "failed", !.gen = 0,
                                              !.errs = @ + 1]]
                                    /\ st' = SetState(SetState(st, "micStream", i),
                                     "isConnecting", FALSE)
                   /\ UNCHANGED <<ctxState, audioContextRef, sourceNodeRef>>
              ELSE /\ \/ start' = [start EXCEPT ![i] =
                                     [rec EXCEPT !.pc = "close",
                                                 !.closing = audioContextRef]]
                      \/ \* close() of a context that is being closed rejects
                         /\ ClosePending(audioContextRef)
                         /\ start' = [start EXCEPT ![i] =
                                        [rec EXCEPT !.pc = "failed", !.gen = 0,
                                                    !.errs = @ + 1]]
                   /\ st' = IF start'[i].pc = "failed"
                            THEN SetState(SetState(st, "micStream", i),
                                          "isConnecting", FALSE)
                            ELSE SetState(st, "micStream", i)
                   /\ UNCHANGED <<ctxState, audioContextRef, sourceNodeRef>>
  /\ UNCHANGED <<role, userId, view, gen, flag, navigated, stop, calls, modLoaded,
                 nodeCtx, nodeConn, workletNodeRef, chunkIndexRef, audioChunksRef,
                 bufferSize, audioBuffer, overlapLen, nFrames, emitted, prefix, overlapFrom, postCount, result, dropped, lastOutcome, notified, cap, sess>>

\* the close() of line 472 resolved: lines 474-478
StartAfterClose(i) ==
  /\ start[i].pc = "close"
  /\ CreateGraph(i, start[i],
                 [ctxState EXCEPT ![start[i].closing] = "closed"])
  /\ UNCHANGED <<role, userId, st, view, gen, flag, navigated, stop, calls,
                 trackLive, modLoaded, nodeCtx, nodeConn, workletNodeRef,
                 chunkIndexRef, audioChunksRef, bufferSize, audioBuffer, overlapLen, nFrames,
                 emitted, prefix, overlapFrom, postCount, result, dropped, lastOutcome, notified, cap, sess>>

\* addModule settled: lines 479-547
AddModuleDone(i) ==
  /\ start[i].pc = "addModule"
  /\ \/ /\ StartFailed(i, start[i])
        /\ UNCHANGED <<modLoaded, nodeCtx, nodeConn, workletNodeRef,
                       chunkIndexRef, audioChunksRef>>
     \/ LET c == audioContextRef
        IN /\ modLoaded' = [modLoaded EXCEPT ![i] = TRUE]
           /\ IF c = 0 \/ ~(c = i \/ modLoaded[c])
              THEN \* new AudioWorkletNode throws: no context, or the
                   \* processor is not registered in the context the ref names
                   /\ StartFailed(i, start[i])
                   /\ UNCHANGED <<nodeCtx, nodeConn, workletNodeRef,
                                  chunkIndexRef, audioChunksRef>>
              ELSE /\ nodeCtx' = [nodeCtx EXCEPT ![i] = c]
                   /\ workletNodeRef' = i
                   /\ audioChunksRef' = 0
                   /\ chunkIndexRef' = 0
                   /\ IF sourceNodeRef # c
                      THEN \* connect throws: no source node, or one of
                           \* another context
                           /\ StartFailed(i, start[i])
                           /\ UNCHANGED nodeConn
                      ELSE /\ nodeConn' = [nodeConn EXCEPT ![i] = TRUE]
                           /\ start' = [start EXCEPT ![i].pc = "done"]
                           /\ st' = SetState(SetState(st, "isRecording", TRUE),
                                             "isConnecting", FALSE)
  /\ UNCHANGED <<role, userId, view, gen, flag, navigated, stop, calls, trackLive,
                 ctxState, audioContextRef, sourceNodeRef, bufferSize, audioBuffer, overlapLen,
                 nFrames, emitted, prefix, overlapFrom, postCount, result, dropped, lastOutcome, notified, cap, sess>>

(* ------------------------------ handlers ------------------------------ *)
\* faulty variant: the mic button and startSpeech serve every role
CreatorOnlyAnyRole == TRUE

\* lines 557 and 458: handleMicClick and startSpeech go on only for a creator
CreatorOnly == role = "creator"

\* line 561: the mic button answers "Please wait..." and does nothing else
\* while the committed render shows isConnecting or isProcessing
MicBlocked == view.isConnecting \/ view.isProcessing

\* handleMicClick of the committed render, lines 556-570, with startSpeech up to
\* its await of getUserMedia (lines 457-467) or stopSpeech up to its first await
MicClick ==
  /\ ~navigated
  /\ IF ~CreatorOnly
     THEN \* toast.error only
          /\ UNCHANGED <<st, flag, navigated, start, stop, calls, trackLive,
                         nodeConn, sourceNodeRef, workletNodeRef, chunkIndexRef,
                         audioChunksRef, dropped, lastOutcome, notified>>
     ELSE IF MicBlocked
     THEN \* toast.info only
          /\ UNCHANGED <<st, flag, navigated, start, stop, calls, trackLive,
                         nodeConn, sourceNodeRef, workletNodeRef, chunkIndexRef,
                         audioChunksRef, dropped, lastOutcome, notified>>
     ELSE IF view.isRecording
     THEN /\ IdleStops # {}
          /\ StopBegin(Least(IdleStops), FALSE)
          /\ UNCHANGED start
     ELSE /\ IdleStarts # {}
          /\ start' = [start EXCEPT ![Least(IdleStarts)] =
                         [pc |-> "gum", gen |-> gen, gotStream |-> FALSE,
                          closing |-> 0, errs |-> 0, off |-> FALSE]]
          /\ UNCHANGED <<st, flag, navigated, stop, calls, trackLive,
                         nodeConn, sourceNodeRef, workletNodeRef, chunkIndexRef,
                         audioChunksRef, dropped, lastOutcome, notified>>
  /\ UNCHANGED <<role, userId, view, gen, ctxState, modLoaded, nodeCtx,
                 audioContextRef, bufferSize, audioBuffer, overlapLen, nFrames, emitted, prefix, overlapFrom, postCount, result,
                 cap, sess>>

\* handleLeaveClick of the committed render, lines 572-578
LeaveClick ==
  /\ ~navigated
  /\ IF view.isRecording
     THEN /\ IdleStops # {}
          /\ StopBegin(Least(IdleStops), TRUE)
     ELSE /\ navigated' = TRUE
          /\ UNCHANGED <<st, flag, stop, calls, trackLive, nodeConn,
                         sourceNodeRef, workletNodeRef, chunkIndexRef,
                         audioChunksRef, dropped, lastOutcome, notified>>
  /\ UNCHANGED <<role, userId, view, gen, start, ctxState, modLoaded, nodeCtx,
                 audioContextRef, bufferSize, audioBuffer, overlapLen, nFrames, emitted, prefix, overlapFrom, postCount, result,
                 cap, sess>>

(* ----------------------- the capture callback ------------------------- *)
\* lines 514-518: the last overlapSize samples of the combined buffer, or all
\* of a shorter one
OverlapTail(combined) ==
  IF combined >= overlapSize THEN overlapSize ELSE combined

\* workletNode.port.onmessage of node i, lines 490-539, for one frame of len
\* samples, up to the first await that yields to another task
Frame(i, len) ==
  /\ NodeLive(i)
  /\ nFrames < MaxFrames
  /\ nFrames' = nFrames + 1
  /\ LET size == bufferSize[i] + len
         combined == size + overlapLen[i]
         k == nFrames + 1
         g == start[i].gen
         entry == Entry(g)
     IN IF size < targetBufferSize
        THEN /\ bufferSize' = [bufferSize EXCEPT ![i] = size]
             /\ audioBuffer' = [audioBuffer EXCEPT ![i] = @ \cup {k}]
             /\ UNCHANGED <<overlapLen, overlapFrom, emitted, prefix, flag, st,
                            calls, chunkIndexRef, dropped, lastOutcome, notified>>
        ELSE /\ overlapLen' = [overlapLen EXCEPT ![i] = OverlapTail(combined)]
             /\ overlapFrom' = [overlapFrom EXCEPT ![i] = k]
             /\ IF audioContextRef = 0
                THEN \* line 521: return, the buffer is kept
                     /\ bufferSize' = [bufferSize EXCEPT ![i] = size]
                     /\ audioBuffer' = [audioBuffer EXCEPT ![i] = @ \cup {k}]
                     /\ UNCHANGED <<emitted, prefix, flag, st, calls,
                                    chunkIndexRef, dropped, lastOutcome, notified>>
                ELSE /\ emitted' = [emitted EXCEPT ![i] = Append(@, chunkIndexRef)]
                     /\ prefix' = [prefix EXCEPT ![i] =
                                     Append(@, [pass |-> k, len |-> overlapLen[i],
                                                from |-> overlapFrom[i],
                                                frames |-> audioBuffer[i] \cup {k}])]
                     /\ IF entry = "acquired"
                        THEN /\ flag' = [flag EXCEPT ![g] = TRUE]
                             /\ st' = SetState(st, "isProcessing", TRUE)
                             /\ calls' = calls \cup {NewCall(i, k, chunkIndexRef, -1)}
                             /\ bufferSize' = [bufferSize EXCEPT ![i] = size]
                             /\ audioBuffer' = [audioBuffer EXCEPT ![i] = @ \cup {k}]
                             /\ UNCHANGED <<chunkIndexRef, dropped, lastOutcome, notified>>
                        ELSE \* the call returned at once: lines 532-534
                             /\ bufferSize' = [bufferSize EXCEPT ![i] = 0]
                             /\ audioBuffer' = [audioBuffer EXCEPT ![i] = {}]
                             /\ chunkIndexRef' = chunkIndexRef + 1
                             /\ Ended(k, entry)
                             /\ notified' = (entry = "missing")
                             /\ UNCHANGED <<flag, st, calls>>
  /\ UNCHANGED <<role, userId, view, gen, navigated, start, stop, trackLive,
                 ctxState, modLoaded, nodeCtx, nodeConn, audioContextRef,
                 sourceNodeRef, workletNodeRef, audioChunksRef, postCount, result, cap, sess>>

(* ---------------- processAudioChunk after its first await -------------- *)
\* the call c leaves processAudioChunk through finally (lines 398-401) and its
\* caller goes on: the capture callback resets its buffer and counts the chunk
\* (lines 532-534), stopSpeech empties audioChunksRef and ends (lines 444-454)
Finish(c, outcome, failed) ==
  LET g == CallerGen(c.caller)
      st1 == SetState(st, "isProcessing", FALSE)
  IN /\ flag' = ReleasePermit(flag, g)
     /\ calls' = (calls \ {c}) \cup (IF failed THEN Resubmit(c) ELSE {})
     /\ Ended(c.chunk, outcome)
     /\ notified' = failed
     /\ IF IsNodeCaller(c.caller)
        THEN /\ bufferSize' = [bufferSize EXCEPT ![c.caller] = 0]
             /\ audioBuffer' = [audioBuffer EXCEPT ![c.caller] = {}]
             /\ chunkIndexRef' = chunkIndexRef + 1
             /\ st' = st1
             /\ UNCHANGED <<stop, navigated, audioChunksRef>>
        ELSE /\ audioChunksRef' = 0
             /\ StopEnd(c.caller - MaxRapidStarts, stop[c.caller - MaxRapidStarts], st1)
             /\ UNCHANGED <<bufferSize, audioBuffer>>

\* audioBlob.arrayBuffer() resolved: lines 337-354.  The spread of the whole
\* buffer into String.fromCharCode can exceed the engine's argument limit
\* (RangeError), which the catch block handles
BlobRead(c) ==
  /\ c \in calls
  /\ c.pc = "arrayBuffer"
  /\ \/ /\ postCount' = [postCount EXCEPT ![c.chunk] = @ + 1]
        /\ calls' = (calls \ {c}) \cup {[c EXCEPT !.pc = "fetch"]}
        /\ UNCHANGED <<result, flag, dropped, lastOutcome, notified, bufferSize, audioBuffer, chunkIndexRef, st,
                       stop, navigated, audioChunksRef>>
     \/ /\ Finish(c, "encodeError", TRUE)
        /\ UNCHANGED <<postCount, result>>
  /\ UNCHANGED <<role, userId, view, gen, start, trackLive, ctxState, modLoaded,
                 nodeCtx, nodeConn, audioContextRef, sourceNodeRef, workletNodeRef,
                 overlapLen, nFrames, emitted, prefix, overlapFrom, cap, sess>>

\* the fetch of line 339 settled: lines 356-360
PostResponse(c) ==
  /\ c \in calls
  /\ c.pc = "fetch"
  /\ \/ /\ calls' = (calls \ {c}) \cup {[c EXCEPT !.pc = "json"]}
        /\ UNCHANGED <<flag, dropped, lastOutcome, notified, bufferSize, audioBuffer, chunkIndexRef, st,
                       stop, navigated, audioChunksRef>>
     \/ \E o \in {"httpError", "networkError"} : Finish(c, o, TRUE)
  /\ UNCHANGED <<role, userId, view, gen, start, trackLive, ctxState, modLoaded,
                 nodeCtx, nodeConn, audioContextRef, sourceNodeRef, workletNodeRef,
                 overlapLen, nFrames, emitted, prefix, overlapFrom, postCount, result, cap, sess>>

\* faulty variant: the synthesized audio is played whatever the role
PlaysAudioAnyRole == TRUE

\* line 365: only listeners play the returned audio
PlaysAudio == role = "listener"

\* lines 365-391 for a body r that passed the test of line 363: only a listener
\* plays the audio; the event carries the returned text and isLocal = true
Forward(c, r) ==
  /\ localPlays' = IF PlaysAudio THEN localPlays \cup {c.chunk} ELSE localPlays
  /\ forwarded' = forwarded \cup
                    {[chunk |-> c.chunk, text |-> r.text, isLocal |-> TRUE]}

\* response.json() settled: lines 360-401.  "event": text and audioContent are
\* there and the transcription event is dispatched; "empty": one is missing
JsonDone(c) ==
  /\ c \in calls
  /\ c.pc = "json"
  /\ \/ \E r \in Results :
          /\ lastResult' = r
          /\ IF Forwardable(r)
             THEN Forward(c, r) /\ Finish(c, "event", FALSE)
             ELSE UNCHANGED <<forwarded, localPlays>> /\ Finish(c, "empty", FALSE)
     \/ Finish(c, "badJson", TRUE) /\ UNCHANGED result
  /\ UNCHANGED <<role, userId, view, gen, start, trackLive, ctxState, modLoaded,
                 nodeCtx, nodeConn, audioContextRef, sourceNodeRef, workletNodeRef,
                 overlapLen, nFrames, emitted, prefix, overlapFrom, postCount, cap, sess>>

(* -------------------------- the caption effect ------------------------- *)
Deliveries == 1..MaxDeliveries

\* the data messages the transport may deliver: two caption events, a caption
\* whose text is blank and a message of another type
Msgs == {[type |-> "caption", text |-> "hello", timestamp |-> 1],
         [type |-> "caption", text |-> "bye", timestamp |-> 2],
         [type |-> "caption", text |-> " ", timestamp |-> 3],
         [type |-> "tts", text |-> "hello", timestamp |-> 4]}

\* what /translate answers for a text when it answers with a translation
TranslatedTextOf(t) == IF t = "hello" THEN "hola" ELSE "adios"

\* userData?.language of the stored profile ("": none), Settings.tsx line 317
ProfileLanguage == IF userData = 2 THEN "fr-FR" ELSE ""

\* Helpers.getUserLanguage, Settings.tsx lines 314-328: the profile's language,
\* else listenerLanguage, else Helpers.defaultLanguage
getUserLanguage ==
  IF ProfileLanguage # "" THEN ProfileLanguage
  ELSE IF listenerLanguage # "" THEN listenerLanguage
  ELSE "en-US"

\* lines 306-308, the language processAudioChunk submits: listenerLanguage,
\* else userLanguage (line 122)
getTargetLanguageCode ==
  IF listenerLanguage # "" THEN listenerLanguage ELSE getUserLanguage

\* line 234
MyLanguage == IF listenerLanguage # "" THEN listenerLanguage ELSE "en"

\* line 248: data.translatedText || lastMsg.text ("" stands for a response
\* without translatedText)
DisplayedText(translatedText, msg) ==
  IF translatedText # "" THEN translatedText ELSE msg.text

\* faulty variant: a catch callback that leaves the caption cleared
FallbackTextEmpty(msg) == ""

\* line 267: the text the catch callback displays
FallbackText(msg) == msg.text

\* the transport appends a message to dataMessages (useLiveKit, line 215);
\* delivery is at least once, so a message can come again
Deliver(m) ==
  /\ Len(dataMessages) < MaxDeliveries
  /\ dataMessages' = Append(dataMessages, m)
  /\ UNCHANGED <<speakerVars, sess, listenerLanguage, effectSeen, captionText, messages,
                 captionTimeoutRef, timers, translateReqs, ttsReqs, settled, shown,
                 ttsIssued, played>>

\* the effect of lines 225-278 runs after a render in which dataMessages changed
CaptionEffect ==
  /\ Len(dataMessages) > effectSeen
  /\ effectSeen' = Len(dataMessages)
  /\ LET d == Len(dataMessages)
         lastMsg == dataMessages[d]
     IN IF lastMsg.type = "caption" /\ lastMsg.text # "" /\ Trim(lastMsg.text) # ""
        THEN IF role = "listener"
             THEN /\ captionText' = ""
                  /\ messages' = <<>>
                  /\ timers' = timers \ {captionTimeoutRef}
                  /\ translateReqs' = translateReqs \cup {[d |-> d, lang |-> MyLanguage]}
                  /\ settled' = [settled EXCEPT ![d] = "pending"]
                  /\ UNCHANGED <<captionTimeoutRef, shown>>
             ELSE /\ captionText' = lastMsg.text
                  /\ messages' = <<[d |-> d, text |-> lastMsg.text,
                                    language |-> "source"]>>
                  /\ timers' = (timers \ {captionTimeoutRef}) \cup {d}
                  /\ captionTimeoutRef' = d
                  /\ settled' = [settled EXCEPT ![d] = "direct"]
                  /\ shown' = [shown EXCEPT ![d] = lastMsg.text]
                  /\ UNCHANGED translateReqs
        ELSE UNCHANGED <<captionText, messages, timers, translateReqs, settled,
                         captionTimeoutRef, shown>>
  /\ UNCHANGED <<speakerVars, sess, listenerLanguage, dataMessages, ttsReqs, ttsIssued,
                 played>>

\* /translate answered with a body that parses: lines 247-264.  translatedText
\* is "" when the body carries none
TranslateAnswered(r, translatedText) ==
  /\ r \in translateReqs
  /\ translateReqs' = translateReqs \ {r}
  /\ LET lastMsg == dataMessages[r.d]
         text == DisplayedText(translatedText, lastMsg)
         req == [d |-> r.d, text |-> text, language |-> r.lang]
     IN /\ captionText' = text
        /\ messages' = <<[d |-> r.d, text |-> text, language |-> r.lang]>>
        /\ timers' = timers \cup {r.d}
        /\ captionTimeoutRef' = r.d
        /\ ttsReqs' = ttsReqs \cup {req}
        /\ ttsIssued' = ttsIssued \cup {req}
        /\ shown' = [shown EXCEPT ![r.d] = text]
        /\ settled' = [settled EXCEPT ![r.d] =
                         IF translatedText # "" THEN "translated" ELSE "missing"]
  /\ UNCHANGED <<speakerVars, sess, listenerLanguage, dataMessages, effectSeen, played>>

\* the fetch of /translate rejected or its body did not parse: lines 266-270
TranslateFailed(r) ==
  /\ r \in translateReqs
  /\ translateReqs' = translateReqs \ {r}
  /\ LET lastMsg == dataMessages[r.d]
     IN /\ captionText' = FallbackText(lastMsg)
        /\ messages' = <<[d |-> r.d, text |-> lastMsg.text, language |-> r.lang]>>
        /\ shown' = [shown EXCEPT ![r.d] = FallbackText(lastMsg)]
  /\ timers' = timers \cup {r.d}
  /\ captionTimeoutRef' = r.d
  /\ settled' = [settled EXCEPT ![r.d] = "failed"]
  /\ UNCHANGED <<speakerVars, sess, listenerLanguage, dataMessages, effectSeen, ttsReqs,
                 ttsIssued, played>>

\* how a fetch of /audio/tts settles: a body with audioContent, a body
\* without it, or a rejection of the fetch or of res.json()
TtsOutcomes == {"audio", "noAudio", "rejected"}

\* /audio/tts settled: lines 253-264.  The audio is played when the body
\* carries audioContent.  The promise of this fetch has no catch and is not
\* returned to the /translate chain, so its rejection reaches no handler
TtsSettled(q, o) ==
  /\ q \in ttsReqs
  /\ ttsReqs' = ttsReqs \ {q}
  /\ played' = IF o = "audio" THEN played \cup {q.d} ELSE played
  /\ unhandled' = IF o = "rejected" THEN unhandled \cup {"tts"} ELSE unhandled
  /\ UNCHANGED <<speakerVars, conn, enc, listenerLanguage, dataMessages, effectSeen,
                 captionText, messages, captionTimeoutRef, timers, translateReqs,
                 settled, shown, ttsIssued>>

\* a setTimeout callback of lines 251, 269 or 275 runs: setCaption('')
TimerFired(t) ==
  /\ t \in timers
  /\ timers' = timers \ {t}
  /\ captionText' = ""
  /\ UNCHANGED <<speakerVars, sess, listenerLanguage, dataMessages, effectSeen, messages,
                 captionTimeoutRef, translateReqs, ttsReqs, settled, shown,
                 ttsIssued, played>>

(* ----------------------------- the session ---------------------------- *)
\* the dependency values of the effects of lines 168-211 and 626-665 in a render
Deps(v, m) == [mounted |-> m, isRecording |-> v.isRecording,
               micStream |-> v.micStream, livekitReady |-> v.livekitReady,
               livekitToken |-> v.livekitToken,
               isLivekitConnected |-> v.isLivekitConnected]

\* React runs the effects of a commit before the next render and before the
\* next click is handled
EffectsFlushed == deps = Deps(view, TRUE)

\* readiness as the session requires it: a speaker records with a capture
\* stream and a resolved identity, a listener has a resolved identity
Readiness(v) ==
  /\ roomId # 0 /\ userData # 0
  /\ \/ role = "creator" /\ v.isRecording /\ v.micStream # 0
     \/ role = "listener"

\* faulty variant: the credential is requested without waiting for livekitReady
JoinConditionNoReady(v) == roomId # 0 /\ userData # 0 /\ v.livekitToken = 0

\* lines 195-200
JoinCondition(v) ==
  v.livekitReady /\ roomId # 0 /\ userData # 0 /\ v.livekitToken = 0

\* faulty variant: the response is stored whatever data.success says
StoredAlways(o) == o # "error"

\* line 156: if (data.success)
Stored(o) == o = "success"

\* faulty variant: the redirect effect does nothing
RedirectConditionNever == FALSE

\* line 611: if (!roomId || !role)
RedirectCondition == roomId = 0 \/ role = ""

InitSessionIdle ==
  /\ deps = Deps(InitState, FALSE)
  /\ tokenReq = 0
  /\ tokenIssued = 0
  /\ tokenOutcome = "none"
  /\ pubs = {}
  /\ publishing = {}
  /\ unpublishing = {}
  /\ remoteAudioTracks = 0
  /\ wasReady = FALSE
  /\ staleSeen = FALSE
  /\ unhandled = {}

\* what the session's effects and callbacks leave alone of the speaker's state
captureVars == <<role, userId, view, gen, flag, start, stop, calls, trackLive,
                 ctxState, modLoaded, nodeCtx, nodeConn, audioContextRef,
                 sourceNodeRef, workletNodeRef, chunkIndexRef, audioChunksRef,
                 bufferSize, audioBuffer, overlapLen, nFrames, emitted, prefix, overlapFrom, postCount, result,
                 dropped, lastOutcome, notified>>

\* listed audio tracks of a stream that was stopped, other than the current one
StaleTracks(v) == {t \in pubs : t # v.micStream /\ ~trackLive[t]}

\* the publish effect's body, lines 628-664.  unpublishTrack is not awaited:
\* the publication leaves localParticipant's publications either before the
\* call returns (gone) or when the unpublish completes
PublishBody(v, gone) ==
  LET listed == IF gone THEN {} ELSE pubs
  IN /\ pubs' = listed
     /\ unpublishing' = unpublishing \cup listed
     /\ publishing' = IF listed = {} THEN publishing \cup {v.micStream}
                      ELSE publishing

\* the effects of one commit, in the order of the component body: readiness
\* (168-183), joinLiveKit (186-211), redirect (610-615), publish (626-665),
\* remote tracks (770-782); each runs when one of its dependencies changed
FlushEffects ==
  /\ ~navigated
  /\ ~EffectsFlushed
  /\ deps' = Deps(view, TRUE)
  /\ LET v == view
         first == ~deps.mounted
         Changed(f) == first \/ deps[f] # v[f]
         readyCreator == /\ Changed("isRecording") \/ Changed("micStream")
                         /\ role = "creator" /\ v.isRecording /\ v.micStream # 0
                         /\ roomId # 0 /\ userData # 0
         readyListener == first /\ role = "listener" /\ roomId # 0 /\ userData # 0
         join == /\ Changed("livekitReady") \/ Changed("livekitToken")
                 /\ JoinCondition(v)
         redirect == first /\ RedirectCondition
         publish == /\ \/ Changed("isRecording") \/ Changed("micStream")
                       \/ Changed("isLivekitConnected")
                    /\ role = "creator" /\ v.isRecording /\ v.micStream # 0
                    /\ v.isLivekitConnected
         collect == /\ Changed("isLivekitConnected")
                    /\ role = "listener" /\ v.isLivekitConnected
     IN /\ st' = IF readyCreator \/ readyListener
                 THEN SetState(st, "livekitReady", TRUE) ELSE st
        /\ tokenReq' = IF join THEN tokenReq + 1 ELSE tokenReq
        /\ tokenIssued' = IF join THEN tokenIssued + 1 ELSE tokenIssued
        /\ navigated' = redirect
        /\ IF publish
           THEN \E gone \in BOOLEAN : PublishBody(v, gone)
           ELSE UNCHANGED <<pubs, publishing, unpublishing>>
        /\ \E n \in {0, 1} :
             remoteAudioTracks' = IF collect THEN n ELSE remoteAudioTracks
        /\ wasReady' = (wasReady \/ Readiness(v))
        /\ staleSeen' = (staleSeen \/ (publish /\ StaleTracks(v) # {}))
  /\ UNCHANGED <<captureVars, cap, roomId, userData, tokenOutcome, unhandled,
                 enc>>

\* joinLiveKit after its awaits, lines 154-164: "success", "refused" (success
\* is false) or "error" (the fetch or response.json() rejected).  joinLiveKit
\* has no try/catch and the effect drops its promise (line 202), so a rejection
\* reaches no handler
TokenResponse(o) ==
  /\ tokenReq > 0
  /\ tokenReq' = tokenReq - 1
  /\ tokenOutcome' = o
  /\ unhandled' = IF o = "error" THEN unhandled \cup {"token"} ELSE unhandled
  /\ st' = IF Stored(o)
           THEN SetState(SetState(SetState(SetState(st, "livekitToken", 1),
                  "livekitWsUrl", 1), "livekitRoomName", roomId),
                  "livekitUserName", userData)
           ELSE st
  /\ UNCHANGED <<captureVars, navigated, cap, roomId, userData, deps, tokenIssued,
                 pubs, publishing, unpublishing, remoteAudioTracks, wasReady,
                 staleSeen, enc>>

\* useLiveKit (line 215) connects once it is rendered with a token and a wsUrl
Connect ==
  /\ ~navigated
  /\ view.livekitToken # 0 /\ view.livekitWsUrl # 0
  /\ ~st.isLivekitConnected
  /\ st' = SetState(st, "isLivekitConnected", TRUE)
  /\ UNCHANGED <<captureVars, navigated, cap, sess>>

\* the publishTrack of line 646 completed: the publication is listed
PublishDone(t) ==
  /\ t \in publishing
  /\ publishing' = publishing \ {t}
  /\ pubs' = pubs \cup {t}
  /\ UNCHANGED <<speakerVars, cap, roomId, userData, deps, tokenReq, tokenIssued,
                 tokenOutcome, unpublishing, remoteAudioTracks, wasReady,
                 staleSeen, unhandled, enc>>

\* an unpublishTrack of line 637 completed
UnpublishDone(t) ==
  /\ t \in unpublishing
  /\ unpublishing' = unpublishing \ {t}
  /\ pubs' = pubs \ {t}
  /\ UNCHANGED <<speakerVars, cap, roomId, userData, deps, tokenReq, tokenIssued,
                 tokenOutcome, publishing, remoteAudioTracks, wasReady,
                 staleSeen, unhandled, enc>>

(* ------------------------------ WAVEncoder ---------------------------- *)
\* Sample counts and byte sizes go beyond 2^31, so a number is kept in two
\* parts: [hi, lo] stands for hi * 65536 + lo
Limb == 65536
Zero == [hi |-> 0, lo |-> 0]

\* 2 * c + k, exact (k < Limb)
TwicePlus(c, k) ==
  LET l == 2 * c.lo + k
  IN [hi |-> 2 * c.hi + (l \div Limb), lo |-> l % Limb]

\* the number is below 2^32
Fits32(x) == x.hi < Limb

\* DataView.setUint32 stores its value modulo 2^32
ToUint32(x) == [hi |-> x.hi % Limb, lo |-> x.lo]

\* the offsets encodeWAV writes a header field at, lines 37-49
HeaderOffsets == {0, 4, 8, 12, 16, 20, 22, 24, 28, 32, 34, 36, 40}

\* faulty variant: the RIFF size counts the whole file
ChunkSizeWholeFile(c) == ToUint32(TwicePlus(c, 44))

\* line 38: view.setUint32(4, 36 + samples.length * 2, true)
ChunkSize(c) == ToUint32(TwicePlus(c, 36))

\* encodeWAV of c samples at the default rate, lines 26-60: the buffer's byte
\* length (line 27) and the header written at its offsets
encodeWAV(c) ==
  [byteLength |-> TwicePlus(c, 44),
   header |-> [o \in HeaderOffsets |->
                 CASE o = 0 -> "RIFF"
                   [] o = 4 -> ChunkSize(c)
                   [] o = 8 -> "WAVE"
                   [] o = 12 -> "fmt "
                   [] o = 16 -> 16
                   [] o = 20 -> 1
                   [] o = 22 -> 1
                   [] o = 24 -> 16000
                   [] o = 28 -> 16000 * 2
                   [] o = 32 -> 2
                   [] o = 34 -> 16
                   [] o = 36 -> "data"
                   [] o = 40 -> ToUint32(TwicePlus(c, 0))]]

\* no buffer encoded yet
NoWav == [byteLength |-> Zero, header |-> [o \in {} |-> 0]]

(* ------------------------- WAVEncoder.resample ------------------------- *)
\* the arguments of the calls: audioData.length and the two rates
InputLengths == 1..MaxInput
Rates == 1..MaxRate

\* no call made
NoResample ==
  [pc |-> "idle", inputLength |-> 0, originalSampleRate |-> 0,
   targetSampleRate |-> 0, newLength |-> 0, i |-> 0, reads |-> {},
   clamped |-> FALSE, returned |-> "none"]

\* line 84: sampleRateRatio is a double; the quotient of the rates is rounded
\* unless its denominator in lowest terms is a power of two
Inexact(src, tgt) == \A k \in 0..MaxRate : (src * 2^k) % tgt # 0

\* line 85: Math.round(audioData.length / sampleRateRatio). Math.round takes a
\* half upwards; where the exact quotient ends in one half and the ratio is a
\* rounded double, the computed quotient may lie below the half
NewLengths(len, src, tgt) ==
  LET up == (2 * len * tgt + src) \div (2 * src)
  IN IF Inexact(src, tgt) /\ (2 * len * tgt + src) % (2 * src) = 0
     THEN {up - 1, up}
     ELSE {up}

\* lines 89-90: Math.floor(i * sampleRateRatio); where the exact product is a
\* whole number and the ratio is a rounded double, the computed product may
\* lie just below it
Indices(i, src, tgt) ==
  LET index == (i * src) \div tgt
  IN IF Inexact(src, tgt) /\ (i * src) % tgt = 0 /\ index > 0
     THEN {index - 1, index}
     ELSE {index}

\* faulty variant: the neighbour is read whenever the lower sample exists
HasUpperNeighbourInclusive(index, len) == index + 1 <= len

\* line 93: index + 1 < audioData.length
HasUpperNeighbour(index, len) == index + 1 < len

\* resample from its call to the loop, lines 80-86
ResampleBegin ==
  /\ resampling.pc = "call"
  /\ IF resampling.originalSampleRate = resampling.targetSampleRate
     THEN resampling' = [resampling EXCEPT !.pc = "done", !.returned = "audioData"]
     ELSE \E n \in NewLengths(resampling.inputLength,
                              resampling.originalSampleRate,
                              resampling.targetSampleRate) :
            resampling' = [resampling EXCEPT
                             !.pc = IF n = 0 THEN "done" ELSE "loop",
                             !.newLength = n, !.returned = "result"]
  /\ UNCHANGED <<speakerVars, cap, conn, unhandled, sampleCount, wav>>

\* one pass of the loop, lines 88-98: audioData[index] is read in both
\* branches, audioData[index + 1] in the first
ResampleStep ==
  /\ resampling.pc = "loop"
  /\ \E index \in Indices(resampling.i, resampling.originalSampleRate,
                          resampling.targetSampleRate) :
       LET upper == HasUpperNeighbour(index, resampling.inputLength)
       IN resampling' = [resampling EXCEPT
            !.reads = @ \cup {index} \cup (IF upper THEN {index + 1} ELSE {}),
            !.clamped = @ \/ ~upper,
            !.i = @ + 1,
            !.pc = IF resampling.i + 1 = resampling.newLength
                   THEN "done" ELSE "loop"]
  /\ UNCHANGED <<speakerVars, cap, conn, unhandled, sampleCount, wav>>

InitEncodeIdle ==
  /\ sampleCount = Zero
  /\ wav = NoWav
  /\ resampling = NoResample

\* the sample counts of the calls: short inputs, the windows the capture
\* callback builds, and counts around the 32-bit limit of the size fields
SampleCounts ==
  [hi : {0, 1, Limb \div 2 - 1, Limb \div 2},
   lo : (0..MaxLow) \cup {targetBufferSize, targetBufferSize + overlapSize,
                          Limb - 19, Limb - 18}]

\* one call of WAVEncoder.encodeWAV
Encode ==
  /\ wav = NoWav
  /\ wav' = encodeWAV(sampleCount)
  /\ UNCHANGED <<speakerVars, cap, conn, unhandled, sampleCount, resampling>>

(* ------------------------- the speaker's page -------------------------- *)
InitCaptionIdle ==
  /\ listenerLanguage = ""
  /\ dataMessages = <<>>
  /\ effectSeen = 0
  /\ captionText = ""
  /\ messages = <<>>
  /\ captionTimeoutRef = 0
  /\ timers = {}
  /\ translateReqs = {}
  /\ ttsReqs = {}
  /\ settled = [d \in Deliveries |-> "none"]
  /\ shown = [d \in Deliveries |-> ""]
  /\ ttsIssued = {}
  /\ played = {}

\* the page before any click: nothing started, no media, empty refs; a run
\* makes at most n startSpeech invocations
InitCapture(n) ==
  /\ st = InitState
  /\ view = InitState
  /\ gen = 0
  /\ flag = [g \in Gens |-> FALSE]
  /\ navigated = FALSE
  /\ start = [i \in Starts |->
                [pc |-> "idle", gen |-> 0, gotStream |-> FALSE, closing |-> 0,
                 errs |-> 0, off |-> i > n]]
  /\ stop = [s \in Stops |->
               [pc |-> "idle", gen |-> 0, mic |-> 0, ctx |-> 0, leave |-> FALSE,
                pend |-> FALSE]]
  /\ calls = {}
  /\ trackLive = [i \in Starts |-> FALSE]
  /\ ctxState = [i \in Starts |-> "none"]
  /\ modLoaded = [i \in Starts |-> FALSE]
  /\ nodeCtx = [i \in Starts |-> 0]
  /\ nodeConn = [i \in Starts |-> FALSE]
  /\ audioContextRef = 0
  /\ sourceNodeRef = 0
  /\ workletNodeRef = 0
  /\ chunkIndexRef = 0
  /\ audioChunksRef = 0
  /\ bufferSize = [i \in Starts |-> 0]
  /\ audioBuffer = [i \in Starts |-> {}]
  /\ overlapLen = [i \in Starts |-> 0]
  /\ nFrames = 0
  /\ emitted = [i \in Starts |-> <<>>]
  /\ prefix = [i \in Starts |-> <<>>]
  /\ overlapFrom = [i \in Starts |-> 0]
  /\ postCount = [k \in ChunkIds |-> 0]
  /\ dropped = {}
  /\ lastOutcome = "none"
  /\ notified = FALSE
  /\ lastResult = NoResult
  /\ forwarded = {}
  /\ localPlays = {}

Init ==
  /\ role \in {"creator", "listener"}
  /\ userId \in {0, 1}
  /\ InitCapture(MaxStarts)
  /\ InitCaptionIdle
  /\ roomId = 1
  /\ userData = 1
  /\ InitSessionIdle
  /\ InitEncodeIdle

Next ==
  \/ Render
  \/ MicClick
  \/ LeaveClick
  \/ \E i \in Starts : GetUserMediaDone(i)
  \/ \E i \in Starts : StartAfterClose(i)
  \/ \E i \in Starts : AddModuleDone(i)
  \/ \E s \in Stops : StopAfterClose(s)
  \/ \E i \in Starts : \E len \in FrameLens : Frame(i, len)
  \/ \E c \in calls : BlobRead(c)
  \/ \E c \in calls : PostResponse(c)
  \/ \E c \in calls : JsonDone(c)

Spec == Init /\ [][Next]_vars

(* -------------------------- the listener's page ------------------------ *)
InitSpeakerIdle ==
  /\ userId = 1
  /\ InitCapture(MaxStarts)

InitCaption ==
  /\ role \in {"listener", "creator"}
  /\ InitSpeakerIdle
  /\ roomId = 1
  /\ userData \in {1, 2}
  /\ InitSessionIdle
  /\ InitEncodeIdle
  /\ listenerLanguage \in {"", "es-ES"}
  /\ dataMessages = <<>>
  /\ effectSeen = 0
  /\ captionText = ""
  /\ messages = <<>>
  /\ captionTimeoutRef = 0
  /\ timers = {}
  /\ translateReqs = {}
  /\ ttsReqs = {}
  /\ settled = [d \in Deliveries |-> "none"]
  /\ shown = [d \in Deliveries |-> ""]
  /\ ttsIssued = {}
  /\ played = {}

NextCaption ==
  \/ \E m \in Msgs : Deliver(m)
  \/ CaptionEffect
  \/ \E r \in translateReqs : \E t \in {TranslatedTextOf(dataMessages[r.d].text), ""} :
        TranslateAnswered(r, t)
  \/ \E r \in translateReqs : TranslateFailed(r)
  \/ \E q \in ttsReqs : \E o \in TtsOutcomes : TtsSettled(q, o)
  \/ \E t \in timers : TimerFired(t)

SpecCaption == InitCaption /\ [][NextCaption]_vars

(* ------------- the speaker's page while captions come in --------------- *)
\* a creator records and submits chunks while the transport delivers caption
\* events to the same page
InitCreator ==
  /\ Init
  /\ role = "creator"
  /\ userId = 1

NextCreator ==
  \/ MicClick
  \/ \E i \in Starts : GetUserMediaDone(i)
  \/ \E i \in Starts : AddModuleDone(i)
  \/ \E i \in Starts : \E len \in FrameLens : Frame(i, len)
  \/ \E c \in calls : BlobRead(c)
  \/ \E c \in calls : PostResponse(c)
  \/ \E c \in calls : JsonDone(c)
  \/ \E m \in Msgs : Deliver(m)
  \/ CaptionEffect
  \/ \E t \in timers : TimerFired(t)

SpecCreator == InitCreator /\ [][NextCreator]_vars

(* --------------------- the session of the page ------------------------- *)
\* the page from its first render: context that may be missing, the effects,
\* the credential request, the transport and the recordings (without frames)
InitSession ==
  /\ role \in {"", "creator", "listener"}
  /\ InitSpeakerIdle
  /\ InitCaptionIdle
  /\ roomId \in {0, 1}
  /\ userData \in {0, 1}
  /\ InitSessionIdle
  /\ InitEncodeIdle

NextSession ==
  \/ FlushEffects
  \/ EffectsFlushed /\ Render
  \/ EffectsFlushed /\ MicClick
  \/ EffectsFlushed /\ LeaveClick
  \/ \E i \in Starts : GetUserMediaDone(i)
  \/ \E i \in Starts : StartAfterClose(i)
  \/ \E i \in Starts : AddModuleDone(i)
  \/ \E s \in Stops : StopAfterClose(s)
  \/ \E o \in {"success", "refused", "error"} : TokenResponse(o)
  \/ Connect
  \/ \E t \in Starts : PublishDone(t)
  \/ \E t \in Starts : UnpublishDone(t)

SpecSession == InitSession /\ [][NextSession]_vars

(* ------------------ the session with capture and chunks --------------- *)
\* the page of a creator or a listener with its context present: the effects,
\* the credential request, the transport, the recordings and their chunks
InitPage ==
  /\ role \in {"creator", "listener"}
  /\ InitSpeakerIdle
  /\ InitCaptionIdle
  /\ roomId = 1
  /\ userData = 1
  /\ InitSessionIdle
  /\ InitEncodeIdle

NextPage ==
  \/ FlushEffects
  \/ EffectsFlushed /\ Render
  \/ EffectsFlushed /\ MicClick
  \/ \E i \in Starts : GetUserMediaDone(i)
  \/ \E i \in Starts : AddModuleDone(i)
  \/ \E s \in Stops : StopAfterClose(s)
  \/ \E i \in Starts : Frame(i, targetBufferSize)
  \/ \E c \in calls : BlobRead(c)
  \/ \E c \in calls : PostResponse(c)
  \/ \E c \in calls : JsonDone(c)
  \/ TokenResponse("success")
  \/ Connect
  \/ \E t \in Starts : PublishDone(t)
  \/ \E t \in Starts : UnpublishDone(t)

SpecPage == InitPage /\ [][NextPage]_vars

(* ------------------- the speaker's page, rapid clicks ------------------ *)
\* a creator clicks the mic button several times before the first click's
\* recording is rendered; the submissions of the chunks stay unanswered
InitRapid ==
  /\ role = "creator"
  /\ userId = 1
  /\ InitCapture(MaxRapidStarts)
  /\ InitCaptionIdle
  /\ roomId = 1
  /\ userData = 1
  /\ InitSessionIdle
  /\ InitEncodeIdle

NextRapid ==
  \/ Render
  \/ MicClick
  \/ \E i \in Starts : GetUserMediaDone(i)
  \/ \E i \in Starts : StartAfterClose(i)
  \/ \E i \in Starts : AddModuleDone(i)
  \/ \E s \in Stops : StopAfterClose(s)
  \/ \E i \in Starts : Frame(i, targetBufferSize)

SpecRapid == InitRapid /\ [][NextRapid]_vars

(* --------------------------- leaving the room -------------------------- *)
\* a creator records, may start twice, and leaves; every frame fills a chunk
NextLeave ==
  \/ Render
  \/ MicClick
  \/ LeaveClick
  \/ \E i \in Starts : GetUserMediaDone(i)
  \/ \E i \in Starts : StartAfterClose(i)
  \/ \E i \in Starts : AddModuleDone(i)
  \/ \E s \in Stops : StopAfterClose(s)
  \/ \E i \in Starts : Frame(i, targetBufferSize)
  \/ \E c \in calls : BlobRead(c)
  \/ \E c \in calls : PostResponse(c)
  \/ \E c \in calls : JsonDone(c)

\* what the platform does on its own: React commits the pending render and
\* every promise the page awaits settles. The clicks and the frames of the
\* microphone are the environment's and are not forced.
FairLeave ==
  /\ WF_vars(Render)
  /\ \A i \in Starts : WF_vars(GetUserMediaDone(i))
  /\ \A i \in Starts : WF_vars(StartAfterClose(i))
  /\ \A i \in Starts : WF_vars(AddModuleDone(i))
  /\ \A s \in Stops : WF_vars(StopAfterClose(s))
  /\ WF_vars(\E c \in calls : BlobRead(c))
  /\ WF_vars(\E c \in calls : PostResponse(c))
  /\ WF_vars(\E c \in calls : JsonDone(c))

SpecLeave == Init /\ [][NextLeave]_vars /\ FairLeave

(* ------------------------- calls of the encoder ------------------------ *)
InitEncode ==
  /\ role = "creator"
  /\ InitSpeakerIdle
  /\ InitCaptionIdle
  /\ roomId = 1
  /\ userData = 1
  /\ InitSessionIdle
  /\ sampleCount \in SampleCounts
  /\ wav = NoWav
  /\ resampling = NoResample

NextEncode == Encode

SpecEncode == InitEncode /\ [][NextEncode]_vars

(* ------------------------ calls of the resampler ----------------------- *)
InitResample ==
  /\ role = "creator"
  /\ InitSpeakerIdle
  /\ InitCaptionIdle
  /\ roomId = 1
  /\ userData = 1
  /\ InitSessionIdle
  /\ sampleCount = Zero
  /\ wav = NoWav
  /\ resampling \in [pc : {"call"}, inputLength : InputLengths,
                     originalSampleRate : Rates, targetSampleRate : Rates,
                     newLength : {0}, i : {0}, reads : {{}},
                     clamped : {FALSE}, returned : {"none"}]

NextResample ==
  \/ ResampleBegin
  \/ ResampleStep

SpecResample == InitResample /\ [][NextResample]_vars

(* ======================= claims on the speaker ========================= *)
InFlightPosts == {c \in calls : c.pc = "fetch"}
ErrorOutcomes == {"encodeError", "httpError", "networkError", "badJson"}
\* the chunks stopSpeech builds carry totalChunks = chunkIndex + 1 (line 443),
\* the chunks of the capture callback carry -1 (line 529)
ClosedMarkerChunks == {k \in ChunkIds : k > MaxFrames}

\* C1: in every reachable state at most one POST to /audio/process is in
\* flight (a processAudioChunk call made meanwhile issues no request).
C1_OnePostInFlight == Cardinality(InFlightPosts) <= 1

\* C2: isProcessingAudio is held only while a processAudioChunk call that
\* acquired it is still running: every exit path of such a call leaves the
\* variable false.
C2_PermitReleased ==
  \A g \in Gens : flag[g] => \E c \in calls : CallerGen(c.caller) = g

\* C2 witness: a call that acquired the permit ended in the catch block and
\* the permit is free again.
C2_Witness ==
  /\ lastOutcome \in ErrorOutcomes
  /\ calls = {}
  /\ \A g \in Gens : ~flag[g]

\* C3: every chunk is carried by at most one POST; a chunk whose call found
\* the permit held is never posted and never kept by a running call, and a
\* chunk whose POST failed is not posted again.
C3_AtMostOnce ==
  /\ \A k \in ChunkIds : postCount[k] <= 1
  /\ \A k \in dropped : postCount[k] = 0
  /\ \A c \in calls : c.chunk \notin dropped

\* C3 witness: one chunk was dropped, another was posted and its POST failed,
\* and no call is running any more.
C3_Witness ==
  /\ dropped # {}
  /\ \E k \in ChunkIds : postCount[k] = 1
  /\ lastOutcome \in {"httpError", "networkError"}
  /\ calls = {}

\* C4: the chunks one capture callback builds and hands to processAudioChunk
\* carry the indices 0, 1, 2, ... in this order.
C4_GaplessIndices ==
  \A i \in Starts : \A n \in 1..Len(emitted[i]) : emitted[i][n] = n - 1

\* C5: when stopSpeech was called with samples accumulated but not yet
\* emitted, it has posted them as a final chunk with a closed totalChunks
\* marker by the time it ends.
C5_FinalChunkFlushed ==
  \A s \in Stops :
    (stop[s].pc = "done" /\ stop[s].pend)
       => \E k \in ClosedMarkerChunks : postCount[k] > 0

\* C6: once no recording is being started, running or stopped (startSpeech
\* failed or stopSpeech ended), no microphone track is live and no audio
\* context or worklet node is left open.
C6_CaptureReleased ==
  (/\ \A i \in Starts : start[i].pc \in {"idle", "failed"} \/
                         (start[i].pc = "done" /\ ~st.isRecording)
   /\ \A s \in Stops : stop[s].pc \in {"idle", "done"}
   /\ ~st.isRecording)
    => \A i \in Starts : /\ ~trackLive[i]
                         /\ ctxState[i] # "running"
                         /\ ~NodeLive(i)

(* ======================= claims on the listener ======================== *)
HandledDeliveries == {d \in Deliveries : settled[d] # "none"}
\* the latest caption event the effect has handled (0: none yet)
Newest == IF HandledDeliveries = {} THEN 0
          ELSE CHOOSE d \in HandledDeliveries : \A e \in HandledDeliveries : e <= d
TranslationSettled == {"translated", "missing", "failed"}

\* C7: once a newer caption event has been handled, neither the caption nor
\* the message list shows an older event again: what is displayed comes from
\* the newest handled event.
C7_NewestWins ==
  \A n \in DOMAIN messages : dataMessages[messages[n].d] = dataMessages[Newest]

\* C8: when the translation call of a caption event fails (the fetch rejects,
\* the body does not parse, or it carries no translatedText), the caption and
\* the message list show the event's source text, which is not empty.
C8_FallbackToSource ==
  [][\A d \in Deliveries :
       (settled[d] = "pending" /\ settled'[d] \in {"failed", "missing"})
          => /\ captionText' = dataMessages[d].text
             /\ captionText' # ""
             /\ Len(messages') = 1
             /\ messages'[1].text = dataMessages[d].text]_vars

\* C8 witness: the translation of a delivery failed and its source text is
\* what the caption shows.
C8_Witness ==
  \E d \in Deliveries : /\ settled[d] = "failed"
                        /\ captionText = dataMessages[d].text
                        /\ captionText # ""

\* C9: every caption event whose translation settled has a speech-synthesis
\* request for the text displayed for it, in the listener's language.
C9_SpeechForDisplayedText ==
  \A d \in Deliveries :
    settled[d] \in TranslationSettled
      => [d |-> d, text |-> shown[d], language |-> MyLanguage] \in ttsIssued

\* C10: a caption event causes at most one speech-synthesis request and at
\* most one playback, also when it is delivered again.
C10_AtMostOneSynthesis ==
  \A m \in Msgs :
    /\ Cardinality({q \in ttsIssued : dataMessages[q.d] = m}) <= 1
    /\ Cardinality({d \in played : dataMessages[d] = m}) <= 1

\* displayCaptions, lines 596-601: the last five entries of messages
displayCaptions == SubSeq(messages, IF Len(messages) > 5 THEN Len(messages) - 4 ELSE 1,
                          Len(messages))

\* deliveries whose processing has put a text on display
Displayed == {d \in Deliveries : settled[d] \in TranslationSettled \cup {"direct"}}

\* C11: the visible history holds at most 5 entries, and once an identical
\* caption event has been processed before, processing it again leaves the
\* history as the first processing left it: one entry with the text shown
\* then.
C11_IdempotentDisplay ==
  /\ Len(displayCaptions) <= 5
  /\ \A d1, d2 \in Deliveries :
       (/\ d1 < d2
        /\ d2 = Newest
        /\ dataMessages[d1] = dataMessages[d2]
        /\ d1 \in Displayed)
         => /\ Len(displayCaptions) = 1
            /\ displayCaptions[1].text = shown[d1]

(* ================== claims on the speaker's session ==================== *)
\* C12: in a creator's session there is no translation request, no
\* speech-synthesis request and no playback; a forwardable transcription
\* result becomes a transcript event with isLocal = true and the returned
\* text, and a handled caption event shows its source text directly.
C12_SpeakerNoTranslationNoSpeech ==
  role = "creator" =>
    /\ translateReqs = {} /\ ttsReqs = {} /\ ttsIssued = {}
    /\ played = {} /\ localPlays = {}
    /\ \A e \in forwarded : e.isLocal
    /\ Forwardable(lastResult) =>
         \E e \in forwarded : e.text = lastResult.text /\ e.isLocal
    /\ \A d \in HandledDeliveries :
         settled[d] = "direct" /\ shown[d] = dataMessages[d].text
    /\ captionText # "" => captionText = dataMessages[Newest].text

\* C12 witness: a creator has forwarded a transcription result and shows the
\* source text of a caption event that came in.
C12_Witness ==
  /\ role = "creator"
  /\ forwarded # {}
  /\ \E d \in Deliveries : settled[d] = "direct" /\ captionText = dataMessages[d].text

\* the processAudioChunk call c ends in this step
CallEnds(c) == \A c2 \in calls' : c2.chunk # c.chunk

\* C13: a call forwards a transcript event exactly when its request succeeded
\* and the parsed response carries non-blank text and audio content; a
\* response lacking one of them gives no event and no error notification.
C13_ForwardedIffComplete ==
  [][\A c \in calls :
       CallEnds(c) =>
         LET parsed == c.pc = "json" /\ lastOutcome' # "badJson"
             complete == /\ lastResult'.text \notin {"", " "}
                         /\ lastResult'.audioContent # ""
         IN /\ (\E e \in forwarded' \ forwarded : e.chunk = c.chunk)
                 <=> (parsed /\ complete)
            /\ (parsed /\ ~complete) => ~notified']_vars

\* C13 witness: one response was forwarded and the latest one, lacking text or
\* audio, ended without an event and without a toast.
C13_Witness ==
  /\ forwarded # {}
  /\ lastOutcome = "empty"
  /\ ~Forwardable(lastResult)
  /\ ~notified

(* ===================== claims on the session =========================== *)
\* C14: in every reachable state the speaker has at most one published audio
\* track.
C14_AtMostOneTrack == Cardinality(pubs) <= 1

\* the publish effect has run for the committed render of a recording and
\* connected speaker, and no publish or unpublish is pending
PublishSettled ==
  /\ role = "creator" /\ ~navigated
  /\ st = view /\ EffectsFlushed
  /\ view.isRecording /\ view.micStream # 0 /\ view.isLivekitConnected
  /\ publishing = {} /\ unpublishing = {}

\* C15: after the publish effect ran for a recording speaker with a stale
\* audio track still published, and all pending unpublish and publish
\* operations completed, exactly one audio track is published: the track of
\* the current microphone stream.
C15_OneTrackAfterStale ==
  (staleSeen /\ PublishSettled) => pubs = {view.micStream}

\* C16: a credential request is issued only after readiness has held: a
\* creator was recording with a capture stream and a resolved identity, a
\* listener has a resolved identity (and a room id in both cases).
C16_NoTokenBeforeReady ==
  (tokenIssued > 0 \/ tokenReq > 0) => (wasReady /\ roomId # 0 /\ userData # 0)

\* C16 witness: a creator's credential request was issued after a recording
\* had made the session ready.
C16_Witness ==
  /\ role = "creator"
  /\ tokenIssued > 0
  /\ wasReady
  /\ \E i \in Starts : start[i].pc = "done"

\* C17: a failed credential fetch stores nothing, and while no token is
\* stored there is no wsUrl, room name or user name, no connection, no
\* published or publishing audio track and no remote track attached.
C17_NoTokenNoSession ==
  /\ tokenOutcome \in {"refused", "error"} => st.livekitToken = 0
  /\ st.livekitToken = 0 =>
       /\ st.livekitWsUrl = 0 /\ st.livekitRoomName = 0 /\ st.livekitUserName = 0
       /\ ~st.isLivekitConnected
       /\ pubs = {} /\ publishing = {}
       /\ remoteAudioTracks = 0

\* C17 witness: the credential fetch of a recording creator failed and the
\* session holds no token.
C17_Witness ==
  /\ tokenOutcome \in {"refused", "error"}
  /\ role = "creator" /\ view.isRecording
  /\ st.livekitToken = 0 /\ pubs = {}

\* C18: with the room id or the role missing the page navigates away in its
\* first effects, and the session has no credential request, no capture
\* start and no track publication.
C18_MissingContextExits ==
  (roomId = 0 \/ role = "") =>
    /\ deps.mounted => navigated
    /\ tokenIssued = 0 /\ tokenReq = 0
    /\ \A i \in Starts : start[i].pc = "idle" /\ ~trackLive[i]
    /\ pubs = {} /\ publishing = {}

\* C18 witness: a page without room id or role has run its first effects and
\* navigated away.
C18_Witness ==
  /\ roomId = 0 \/ role = ""
  /\ deps.mounted
  /\ navigated

(* ======================== claims on leaving ============================ *)
\* a handleLeaveClick that found the speaker recording navigates in this step
LeaveNavigates ==
  /\ ~navigated /\ navigated'
  /\ \E s \in Stops : stop[s].leave /\ stop[s].pc # "done" /\ stop'[s].pc = "done"

\* C19: when a recording speaker leaves, capture is released before the page
\* navigates away: at the navigation no microphone track is live, no audio
\* context is running and no worklet node is connected.
C19_CaptureStoppedBeforeLeave ==
  [][LeaveNavigates =>
       \A i \in Starts : /\ ~trackLive'[i]
                         /\ ctxState'[i] # "running"
                         /\ ~nodeConn'[i]]_vars

\* C20: once the user has left the page, a response of /audio/process that
\* arrives afterwards is discarded: no transcript event is dispatched and no
\* audio is played.
C20_DiscardAfterLeave ==
  [][navigated => /\ forwarded' = forwarded
                  /\ localPlays' = localPlays]_vars

\* C21: while a submission to /audio/process is in flight, a mic click of a
\* recording speaker is taken as a stop request (it is not turned away), so
\* that capture is released without waiting for the submission.
C21_StopNotBlockedBySubmission ==
  (role = "creator" /\ ~navigated /\ view.isRecording /\ calls # {})
    => ~MicBlocked

(* ===================== claims on boundary failures ===================== *)
\* C22: no failure of a boundary call (transcription, translation, speech
\* synthesis, credential fetch) is left without a handler: none becomes an
\* unhandled promise rejection.
C22_FailuresHandled == unhandled = {}

\* getUserMedia of startSpeech invocation i rejected
Denied(i) == start[i].pc = "failed" /\ ~start[i].gotStream

\* C23: when getUserMedia rejects, the attempt ends in the catch block with
\* one error notification; that step leaves isRecording, the audio contexts,
\* nodes, tracks and submissions as they were, and afterwards the attempt is
\* never resumed, has no stream, context or worklet node of its own and no
\* chunk is built for it.
C23_DeniedFailsOnce ==
  [][\A i \in Starts :
       /\ (start[i].pc = "gum" /\ Denied(i)')
            => /\ start'[i].errs = 1
               /\ st'.isRecording = st.isRecording
               /\ UNCHANGED <<ctxState, nodeCtx, nodeConn, trackLive,
                              audioContextRef, sourceNodeRef, workletNodeRef,
                              emitted, calls, postCount>>
       /\ Denied(i)
            => /\ start'[i] = start[i]
               /\ ~trackLive'[i] /\ ctxState'[i] = "none" /\ nodeCtx'[i] = 0
               /\ emitted'[i] = <<>>]_vars

\* C23 witness: an attempt was denied, has notified once, and the page is not
\* recording.
C23_Witness ==
  \E i \in Starts : Denied(i) /\ start[i].errs = 1 /\ ~st.isRecording

(* ======================= claims on the encoder ========================= *)
\* the sizes and the format fields of an encoded buffer are those of
\* sampleCount 16-bit mono samples
SizesOf(c, w) ==
  /\ w.byteLength = TwicePlus(c, 44)
  /\ w.header[4] = TwicePlus(c, 36)
  /\ w.header[40] = TwicePlus(c, 0)
  /\ w.header[22] = 1
  /\ w.header[34] = 16

C25_TargetLanguageResolution ==
  role = "listener" =>
    LET target == IF listenerLanguage # "" THEN listenerLanguage
                  ELSE IF ProfileLanguage # "" THEN ProfileLanguage
                  ELSE MyLanguage
    IN /\ \A r \in translateReqs : r.lang = target
       /\ \A q \in ttsIssued : q.language = target

(* ================= claims on the auto-clear timer ====================== *)
\* C26: at any time at most one auto-clear timer is pending, so that the
\* timer started for an older caption event cannot clear the caption of a
\* newer one.
C26_OneTimerPending == Cardinality(timers) <= 1

(* ===================== claims on the overlap window ==================== *)
\* C27: the first chunk a capture callback builds has no overlap prefix; every
\* later chunk begins with an overlap of overlapSize samples taken from the
\* tail of the combined buffer of the chunk built immediately before it.
C27_OverlapFromPreviousChunk ==
  \A i \in Starts : \A n \in 1..Len(prefix[i]) :
    IF n = 1 THEN prefix[i][n].len = 0
    ELSE /\ prefix[i][n].len = overlapSize
         /\ prefix[i][n].from = prefix[i][n - 1].pass

(* ========================= claims on the role ========================== *)
\* C28: in a listener's session no startSpeech call gets as far as asking for
\* the microphone, no stream, audio context or worklet node exists, no chunk
\* is built or submitted, and no audio track is published or being published.
C28_ListenerNeverCaptures ==
  role = "listener" =>
    /\ \A i \in Starts : /\ start[i].pc = "idle"
                         /\ ~trackLive[i]
                         /\ ctxState[i] = "none"
                         /\ nodeCtx[i] = 0
                         /\ emitted[i] = <<>>
    /\ st.micStream = 0 /\ ~st.isRecording
    /\ calls = {}
    /\ \A k \in ChunkIds : postCount[k] = 0
    /\ pubs = {} /\ publishing = {}

\* C28 witness: a listener's page has fetched its credential, is connected
\* to the room and has run its effects, with nothing captured or published.
C28_Witness ==
  /\ role = "listener"
  /\ st.isLivekitConnected
  /\ EffectsFlushed
  /\ \A i \in Starts : start[i].pc = "idle"
  /\ pubs = {}

(* =================== claims on the caption stream ====================== *)
\* C29: every caption event with a non-blank text that was in dataMessages
\* when the caption effect ran has been handled by the effect; none is
\* skipped when several events are appended between two runs.
C29_NoCaptionSkipped ==
  \A d \in 1..effectSeen :
    (dataMessages[d].type = "caption" /\ Trim(dataMessages[d].text) # "")
      => settled[d] # "none"

(* ===================== claims on the chunk index ======================= *)
\* the n-th chunk the callback of node i built was posted to /audio/process
Posted(i, n) == postCount[prefix[i][n].pass] > 0

\* C30: no two chunks of one recording that were posted to /audio/process
\* carry the same chunkIndex.
C30_PostedIndicesDistinct ==
  \A i \in Starts : \A n, m \in 1..Len(emitted[i]) :
    (n < m /\ Posted(i, n) /\ Posted(i, m)) => emitted[i][n] # emitted[i][m]

(* ================== claims on the captured frames ====================== *)
\* the chunks node i's callback built that hold frame f
ChunksWith(i, f, p) == {n \in 1..Len(p[i]) : f \in p[i][n].frames}

\* C31: every frame the capture callback removes from its buffer is held by
\* exactly one of the chunks it built: no frame is dropped by the reset of
\* the buffer and none is handed on twice.
C31_FramesPartitioned ==
  [][\A i \in Starts : \A f \in audioBuffer[i] \ audioBuffer'[i] :
       Cardinality(ChunksWith(i, f, prefix')) = 1]_vars

(* ======================== claims on leaving ============================ *)
\* handleLeaveClick was invoked: it navigated at once, or it awaits (awaited)
\* a stopSpeech
LeaveRequested ==
  navigated \/ \E s \in Stops : stop[s].leave /\ stop[s].pc # "idle"

\* C32: once handleLeaveClick was invoked the page eventually navigates away,
\* whether or not a recording is active, a submission is in flight or a step
\* of stopSpeech fails.
C32_LeaveTerminates == LeaveRequested ~> navigated

(* ======================= claims on the resampler ======================= *)
\* C33: for a non-empty input and positive rates, resample reads only source
\* indices from 0 to inputLength - 1: the lower index of every output sample
\* is below inputLength and the upper neighbour is read only when it exists.
C33_ResampleReadsInside ==
  \A x \in resampling.reads : 0 <= x /\ x < resampling.inputLength

\* a resampling to another rate has returned; its last sample was clamped to
\* the last input sample and earlier ones were interpolated
C33_Witness ==
  /\ resampling.pc = "done"
  /\ resampling.returned = "result"
  /\ resampling.newLength > 1
  /\ resampling.clamped
  /\ resampling.reads = 0..(resampling.inputLength - 1)
  /\ resampling.inputLength > 1

=============================================================================
